---- MODULE Spec2Model ----
(***************************************************************************)
(* RabbitQueueManager (rabbit_queue_manager.py): a client of one broker    *)
(* queue.  A manager holds a connection (_connection) and a channel        *)
(* (_channel); every broker interaction is one step with an outcome the    *)
(* broker chooses (normal, transport loss, channel close, other failure).  *)
(* Bodies on the queue are UTF-8 byte sequences, texts are sequences of    *)
(* code points.                                                            *)
(***************************************************************************)
EXTENDS Naturals, Integers, Sequences, FiniteSets, TLC

VARIABLES
    pc,        \* pc[m]: position of manager m in the operation it executes
    conn,      \* conn[m]: _connection is None / an open / a closed connection
    chan,      \* chan[m]: _channel is unset / an open / a closed channel
    chanCur,   \* chanCur[m]: _channel was created on the object in _connection
    sessions,  \* sessions[m]: open broker sessions created by manager m
    queue,     \* the broker queue: ready bodies, oldest first
    queue0,    \* the contents of the queue before the first operation
    unacked,   \* unacked[m]: bodies delivered on m's session, not yet acknowledged
    body,      \* body[m]: the body the running _receive_message fetched
    call,      \* call[m]: the running (or last finished) operation of m and its trace
    log,       \* finished public operations, in order of completion
    faults,    \* broker failures injected so far
    ttl,       \* ttl[m]: the message TTL in minutes m was configured with (0: none)
    scope,     \* scope[m]: m is outside a with block, in its body, or the body raised
    consumer   \* consumer[m]: streaming fetches of m that the broker holds active

vars == <<pc, conn, chan, chanCur, sessions, queue, queue0, unacked, body, call, log, faults,
          ttl, scope, consumer>>

Managers == {"m1", "m2"}

\* The manager that drives the single-client specification.
Drivers == {"m1"}

\* Bounds of the model.
MaxCalls == 3
MaxFaults == 2

\* Texts a caller adds: "a" and "e-acute, euro sign" (1-, 2- and 3-byte encodings).
Items == {<<97>>, <<233, 8364>>}

\* A body another producer left on the queue: not valid UTF-8.
BadBody == <<255>>

InitialQueues == {<<>>, <<BadBody>>}

\* The list a caller hands to add_list_to_queue.
ItemLists == {<<<<97>>, <<233, 8364>>>>}

----------------------------------------------------------------------------
\* str.encode("utf-8"), as pika applies it to a text body of basic_publish.

\* A Latin-1 encoder: every code point below 256 becomes one byte.
EncodeChar_latin1(c) ==
    IF c < 256 THEN <<c>>
    ELSE <<224 + (c \div 4096), 128 + ((c \div 64) % 64), 128 + (c % 64)>>

EncodeChar(c) ==
    IF c < 128 THEN <<c>>
    ELSE IF c < 2048 THEN <<192 + (c \div 64), 128 + (c % 64)>>
    ELSE <<224 + (c \div 4096), 128 + ((c \div 64) % 64), 128 + (c % 64)>>

RECURSIVE Encode(_)
Encode(s) ==
    IF s = <<>> THEN <<>> ELSE EncodeChar(Head(s)) \o Encode(Tail(s))

\* bytes.decode(): strict UTF-8; DecodeError stands for UnicodeDecodeError.
DecodeError == <<-1>>

IsCont(b) == b >= 128 /\ b <= 191

RECURSIVE Decode(_)
Decode(b) ==
    IF b = <<>> THEN <<>>
    ELSE LET b1 == b[1]
             step(n, cp) ==
                 LET rest == Decode(SubSeq(b, n + 1, Len(b)))
                 IN  IF rest = DecodeError THEN DecodeError ELSE <<cp>> \o rest
         IN  IF b1 < 128 THEN step(1, b1)
             ELSE IF b1 >= 194 /\ b1 <= 223 /\ Len(b) >= 2 /\ IsCont(b[2])
                  THEN step(2, (b1 - 192) * 64 + (b[2] - 128))
             ELSE IF b1 >= 224 /\ b1 <= 239 /\ Len(b) >= 3 /\ IsCont(b[2]) /\ IsCont(b[3])
                  THEN LET cp == (b1 - 224) * 4096 + (b[2] - 128) * 64 + (b[3] - 128)
                       IN  IF cp < 2048 \/ (cp >= 55296 /\ cp <= 57343)
                           THEN DecodeError
                           ELSE step(3, cp)
             ELSE DecodeError

----------------------------------------------------------------------------
\* Outcomes the broker (or the transport) can give to each interaction.

OpenOutcomes == {"ok", "auth", "err_connect", "err_channel", "err_declare"}
FetchOutcomes == {"ok", "lost", "chan_closed", "other"}
AckOutcomes == {"ok", "lost_before", "lost_after", "other"}
PublishOutcomes == {"ok", "lost_before", "lost_after", "unroutable", "nack", "other"}
DeclareOutcomes == {"ok", "lost", "other"}
CloseOutcomes == {"ok", "raise"}

\* A failure outcome may be chosen while the fault budget lasts.
Allowed(o) == o = "ok" \/ faults < MaxFaults

Cost(o) == IF o = "ok" THEN 0 ELSE 1

\* self._connection and self._connection.is_open
IsOpen(m) == conn[m] = "open"

\* The session that owns the channel held in _channel is open.
OwnerOpen(m) == chan[m] # "none" /\ chanCur[m] /\ conn[m] = "open"

\* A channel method can reach the broker: the channel object is open.
Usable(m) == chan[m] = "open" /\ OwnerOpen(m)

\* What a channel method raises when it cannot reach the broker: _channel was
\* never assigned (AttributeError), or the channel object is closed.
ChannelError(m) == IF chan[m] = "none" THEN "AttributeError" ELSE "ChannelWrongState"

\* The broker side of the end of m's current session: its channel closes and
\* its unacknowledged deliveries go back to the head of the queue.
ChanAfterDrop(m) == IF chanCur[m] /\ chan[m] = "open" THEN "closed" ELSE chan[m]

Requeued(m, q) == unacked[m] \o q

----------------------------------------------------------------------------
\* The trace of one operation.

\* The trace of a manager that has not run anything yet.
NoCall(m) ==
    [mgr |-> m, op |-> "none", arg |-> <<>>, start |-> "none", opens |-> 0, reopens |-> 0,
     tries |-> 0, depth |-> 0, faults |-> 0, auth |-> FALSE, acked |-> FALSE,
     stale |-> FALSE, neg |-> FALSE, kind |-> "pending", val |-> <<>>,
     err |-> "none", openErr |-> "none", events |-> {}, ndecl |-> 0, declared |-> {},
     list |-> <<>>, todo |-> <<>>]

\* The trace of a new operation; the declarations the manager made so far are
\* kept over its lifetime.
NewCall(m, op, arg) ==
    [NoCall(m) EXCEPT !.op = op, !.arg = arg, !.start = conn[m],
                      !.declared = call[m].declared]

\* The trace after event e happened in the operation.
Noted(c, e) == [c EXCEPT !.events = @ \cup {e}]

Returned(c, kind, val) == [c EXCEPT !.kind = kind, !.val = val]

Raised(c, err) == [c EXCEPT !.kind = "raise", !.err = err]

Entry(c) ==
    [mgr |-> c.mgr, op |-> c.op, arg |-> c.arg, kind |-> c.kind, val |-> c.val,
     err |-> c.err,
     opens |-> c.opens, faults |-> c.faults, openErr |-> c.openErr, list |-> c.list]

\* Lines 124-126: __next__ turns the None of _receive_message into StopIteration.
StopIteration(c) ==
    IF c.op = "next" /\ c.kind = "none" THEN [c EXCEPT !.kind = "stop"] ELSE c

\* The operation of m ends with trace c: control goes back to the caller.
Finish(m, c) ==
    /\ pc' = [pc EXCEPT ![m] = "idle"]
    /\ call' = [call EXCEPT ![m] = StopIteration(c)]
    /\ log' = Append(log, Entry(StopIteration(c)))
    /\ UNCHANGED <<queue0, ttl, scope, consumer>>

\* The operation of m goes on at position p with trace c.
Goto(m, p, c) ==
    /\ pc' = [pc EXCEPT ![m] = p]
    /\ call' = [call EXCEPT ![m] = c]
    /\ log' = log
    /\ UNCHANGED <<queue0, ttl, scope, consumer>>

----------------------------------------------------------------------------
\* _open_connection with outcome o: connect, open a channel, declare the queue.
\* "auth" is caught and printed; the other failures are raised again.

OpenRaises(o) == o \in {"err_connect", "err_channel", "err_declare"}

_open_connection(m, o) ==
    /\ conn' = [conn EXCEPT ![m] =
                   IF o \in {"ok", "err_channel", "err_declare"} THEN "open" ELSE @]
    /\ chan' = [chan EXCEPT ![m] =
                   IF o = "ok" THEN "open"
                   ELSE IF o = "err_declare" THEN "closed" ELSE @]
    /\ chanCur' = [chanCur EXCEPT ![m] =
                   IF o \in {"ok", "err_declare"} THEN TRUE
                   ELSE IF o = "err_channel" THEN FALSE ELSE @]
    /\ sessions' = [sessions EXCEPT ![m] =
                   IF o \in {"ok", "err_channel", "err_declare"} THEN @ + 1 ELSE @]
    /\ faults' = faults + Cost(o)

\* self._queue_name, set by the constructor and never assigned again.
QueueName(m) == "some_queue"

\* Line 31: queue_declare(queue=self._queue_name), pika's defaults for the rest.
QueueDeclare(m) ==
    [queue |-> QueueName(m), passive |-> FALSE, durable |-> FALSE, arguments |-> {}]

\* Line 106: queue_declare(queue=self._queue_name, passive=True).
PassiveDeclare(m) ==
    [queue |-> QueueName(m), passive |-> TRUE, durable |-> FALSE, arguments |-> {}]

\* The trace after a queue_declare d was sent.
Declared(c, d) ==
    [c EXCEPT !.declared = @ \cup {d},
              !.ndecl = IF d.passive THEN @ ELSE @ + 1]

\* _open_connection without line 31: the session is opened, the queue is not
\* declared.
Opened_undeclared(c, o) ==
    [c EXCEPT !.opens = @ + 1, !.faults = @ + Cost(o),
              !.auth = @ \/ o = "auth",
              !.openErr = IF OpenRaises(o) THEN o ELSE @]

\* The trace after a call of _open_connection with outcome o; the declaration
\* is sent when the connection and the channel were opened.
Opened(c, o) ==
    LET t == [c EXCEPT !.opens = @ + 1, !.faults = @ + Cost(o),
                       !.auth = @ \/ o = "auth",
                       !.openErr = IF OpenRaises(o) THEN o ELSE @]
    IN  IF o \in {"ok", "err_declare"} THEN Declared(t, QueueDeclare(c.mgr)) ELSE t

\* __init__: the constructor opens the connection.
__init__(m) ==
    /\ pc[m] = "new"
    /\ \E o \in OpenOutcomes :
         /\ Allowed(o)
         /\ _open_connection(m, o)
         /\ LET c == Opened(NewCall(m, "init", <<>>), o)
            IN  /\ pc' = [pc EXCEPT ![m] = IF OpenRaises(o) THEN "failed" ELSE "idle"]
                /\ call' = [call EXCEPT ![m] =
                              IF OpenRaises(o) THEN Raised(c, "Other")
                              ELSE Returned(c, "none", <<>>)]
    /\ UNCHANGED <<queue, queue0, unacked, body, log, ttl, scope, consumer>>

\* The session of m ends (closed by the client or lost): the broker closes its
\* channel and forgets its deliveries; q is the queue the step leaves.
DropSession(m, q) ==
    /\ conn' = [conn EXCEPT ![m] = "closed"]
    /\ chan' = [chan EXCEPT ![m] = ChanAfterDrop(m)]
    /\ chanCur' = chanCur
    /\ sessions' = [sessions EXCEPT ![m] = @ - 1]
    /\ unacked' = [unacked EXCEPT ![m] = <<>>]
    /\ queue' = q

\* _close without the test of line 40: closing a connection that is absent or
\* already closed raises.
_close_unchecked(m, o) ==
    IF IsOpen(m)
    THEN /\ DropSession(m, Requeued(m, queue))
         /\ faults' = faults + Cost(o)
    ELSE /\ o = "raise"
         /\ UNCHANGED <<conn, chan, chanCur, sessions, unacked, queue, faults>>

\* _close with outcome o: closes the connection when it is open ("raise": the
\* close itself fails, the connection is gone all the same), else does nothing.
_close(m, o) ==
    /\ IsOpen(m) \/ o = "ok"
    /\ IF IsOpen(m)
       THEN /\ DropSession(m, Requeued(m, queue))
            /\ faults' = faults + Cost(o)
       ELSE UNCHANGED <<conn, chan, chanCur, sessions, unacked, queue, faults>>

Closed(c, o) == [c EXCEPT !.faults = @ + Cost(o)]

----------------------------------------------------------------------------
\* get_next / _receive_message.

get_next(m) ==
    /\ pc[m] = "idle"
    /\ Len(log) < MaxCalls
    /\ Goto(m, "rm_enter", NewCall(m, "get", <<>>))
    /\ UNCHANGED <<conn, chan, chanCur, sessions, queue, unacked, body, faults>>

\* __next__: one step of an iteration over the manager.
__next__(m) ==
    /\ pc[m] = "idle"
    /\ Len(log) < MaxCalls
    /\ Goto(m, "rm_enter", NewCall(m, "next", <<>>))
    /\ UNCHANGED <<conn, chan, chanCur, sessions, queue, unacked, body, faults>>

\* _receive_message without the test of line 45: it opens a connection on
\* every entry, over one that is still open.
_receive_message_enter_always(m) ==
    /\ pc[m] = "rm_enter"
    /\ \E o \in OpenOutcomes :
         /\ Allowed(o)
         /\ _open_connection(m, o)
         /\ IF OpenRaises(o)
            THEN Finish(m, Raised(Opened(call[m], o), "Other"))
            ELSE Goto(m, "rm_fetch", Opened(call[m], o))
    /\ UNCHANGED <<queue, unacked, body>>

\* Lines 45-47: reopen when the connection is absent or closed.
_receive_message_enter(m) ==
    /\ pc[m] = "rm_enter"
    /\ IF IsOpen(m)
       THEN /\ Goto(m, "rm_fetch", call[m])
            /\ UNCHANGED <<conn, chan, chanCur, sessions, faults>>
       ELSE \E o \in OpenOutcomes :
              /\ Allowed(o)
              /\ _open_connection(m, o)
              /\ IF OpenRaises(o)
                 THEN Finish(m, Raised(Opened(call[m], o), "Other"))
                 ELSE Goto(m, "rm_fetch", Opened(call[m], o))
    /\ UNCHANGED <<queue, unacked, body>>

\* The trace after a channel method was invoked: one more attempt, and a use
\* of a channel whose session is not open is recorded.
Invoked(m, c, o) ==
    [c EXCEPT !.tries = @ + 1, !.faults = @ + Cost(o),
              !.stale = @ \/ (chan[m] # "none" /\ ~OwnerOpen(m)),
              !.events = @ \cup (IF chan[m] = "none" THEN {"no_channel"}
                                 ELSE IF ~Usable(m) THEN {"dead_channel"}
                                 ELSE {})]

\* Lines 52-66: basic_get and its three handlers.
_receive_message_fetch(m) ==
    /\ pc[m] = "rm_fetch"
    /\ IF ~Usable(m)
       THEN \* no _channel attribute, or a closed channel: the call raises
            /\ Goto(m, "rm_close_ex", Invoked(m, call[m], "ok"))
            /\ UNCHANGED <<conn, chan, chanCur, sessions, queue, unacked, body, faults>>
       ELSE \E o \in FetchOutcomes :
              /\ Allowed(o)
              /\ faults' = faults + Cost(o)
              /\ LET c == Invoked(m, call[m], o)
                 IN  CASE o = "ok" /\ queue = <<>> ->
                            /\ Finish(m, Returned(c, "none", <<>>))
                            /\ UNCHANGED <<conn, chan, chanCur, sessions, queue, unacked, body>>
                       [] o = "ok" /\ queue # <<>> ->
                            /\ Goto(m, "rm_ack", c)
                            /\ queue' = Tail(queue)
                            /\ unacked' = [unacked EXCEPT ![m] = Append(@, Head(queue))]
                            /\ body' = [body EXCEPT ![m] = Head(queue)]
                            /\ UNCHANGED <<conn, chan, chanCur, sessions>>
                       [] o = "lost" ->
                            /\ Goto(m, "rm_reopen", Noted(c, "fetch_lost"))
                            /\ DropSession(m, Requeued(m, queue))
                            /\ body' = body
                       [] o = "chan_closed" ->
                            /\ Goto(m, "rm_close_cc", Noted(c, "chan_closed"))
                            /\ chan' = [chan EXCEPT ![m] = "closed"]
                            /\ queue' = Requeued(m, queue)
                            /\ unacked' = [unacked EXCEPT ![m] = <<>>]
                            /\ UNCHANGED <<conn, chanCur, sessions, body>>
                       [] o = "other" ->
                            /\ Goto(m, "rm_close_ex", Noted(c, "fetch_error"))
                            /\ UNCHANGED <<conn, chan, chanCur, sessions, queue, unacked, body>>

\* Lines 54-56 and 68-70: the queue is gone; close, then return None.
_receive_message_close_cc(m) ==
    /\ pc[m] = "rm_close_cc"
    /\ \E o \in CloseOutcomes :
         /\ Allowed(o)
         /\ _close(m, o)
         /\ IF o = "raise"
            THEN Finish(m, Raised(Closed(call[m], o), "CloseError"))
            ELSE Finish(m, Returned(Closed(call[m], o), "none", <<>>))
    /\ UNCHANGED <<body>>

\* Lines 58-61: transport lost; reopen and call _receive_message again.
_receive_message_reopen(m) ==
    /\ pc[m] = "rm_reopen"
    /\ \E o \in OpenOutcomes :
         /\ Allowed(o)
         /\ _open_connection(m, o)
         /\ LET c == [Opened(call[m], o) EXCEPT !.reopens = @ + 1]
            IN  IF OpenRaises(o)
                THEN Finish(m, Raised(c, "Other"))
                ELSE Goto(m, "rm_enter", [c EXCEPT !.depth = @ + 1])
    /\ UNCHANGED <<queue, unacked, body>>

\* Lines 63-66: any other failure; close and raise it again.
_receive_message_close_ex(m) ==
    /\ pc[m] = "rm_close_ex"
    /\ \E o \in CloseOutcomes :
         /\ Allowed(o)
         /\ _close(m, o)
         /\ IF o = "raise"
            THEN Finish(m, Raised(Closed(call[m], o), "CloseError"))
            ELSE Finish(m, Raised(Closed(call[m], o), "Other"))
    /\ UNCHANGED <<body>>

\* _receive_message without line 79: the text is returned, nothing acknowledged.
_receive_message_ack_skipped(m) ==
    /\ pc[m] = "rm_ack"
    /\ Goto(m, "rm_decode", call[m])
    /\ UNCHANGED <<conn, chan, chanCur, sessions, queue, unacked, body, faults>>

\* Line 79 in a try of its own whose handler goes on: the text is returned
\* also when the acknowledgement did not reach the broker.
_receive_message_ack_ignored(m) ==
    /\ pc[m] = "rm_ack"
    /\ \E o \in AckOutcomes :
         /\ Allowed(o)
         /\ faults' = faults + Cost(o)
         /\ LET c == Invoked(m, call[m], o)
            IN  CASE o = "ok" ->
                       /\ Goto(m, "rm_decode", [c EXCEPT !.acked = TRUE])
                       /\ unacked' = [unacked EXCEPT ![m] = <<>>]
                       /\ UNCHANGED <<conn, chan, chanCur, sessions, queue>>
                  [] o = "lost_before" ->
                       /\ Goto(m, "rm_decode", Noted(c, "ack_lost"))
                       /\ DropSession(m, Requeued(m, queue))
                  [] o = "lost_after" ->
                       /\ Goto(m, "rm_decode", Noted([c EXCEPT !.acked = TRUE], "ack_lost"))
                       /\ DropSession(m, queue)
                  [] o = "other" ->
                       /\ Goto(m, "rm_decode", Noted(c, "ack_error"))
                       /\ UNCHANGED <<conn, chan, chanCur, sessions, queue, unacked>>
    /\ UNCHANGED <<body>>

\* Line 79: basic_ack of the fetched delivery.
_receive_message_ack(m) ==
    /\ pc[m] = "rm_ack"
    /\ \E o \in AckOutcomes :
         /\ Allowed(o)
         /\ faults' = faults + Cost(o)
         /\ LET c == Invoked(m, call[m], o)
            IN  CASE o = "ok" ->
                       /\ Goto(m, "rm_decode", [c EXCEPT !.acked = TRUE])
                       /\ unacked' = [unacked EXCEPT ![m] = <<>>]
                       /\ UNCHANGED <<conn, chan, chanCur, sessions, queue>>
                  [] o = "lost_before" ->
                       /\ Goto(m, "rm_close_rx", Noted(c, "ack_lost"))
                       /\ DropSession(m, Requeued(m, queue))
                  [] o = "lost_after" ->
                       /\ Goto(m, "rm_close_rx", Noted([c EXCEPT !.acked = TRUE], "ack_lost"))
                       /\ DropSession(m, queue)
                  [] o = "other" ->
                       /\ Goto(m, "rm_close_rx", Noted(c, "ack_error"))
                       /\ UNCHANGED <<conn, chan, chanCur, sessions, queue, unacked>>
    /\ UNCHANGED <<body>>

\* Line 80: decode the body and return the text.
_receive_message_decode(m) ==
    /\ pc[m] = "rm_decode"
    /\ IF Decode(body[m]) = DecodeError
       THEN Goto(m, "rm_close_rx", Noted(call[m], "decode_error"))
       ELSE Finish(m, Returned(call[m], "value", Decode(body[m])))
    /\ UNCHANGED <<conn, chan, chanCur, sessions, queue, unacked, body, faults>>

\* Lines 82-85 without line 84: None is returned, the session stays as it is.
_receive_message_close_rx_kept(m) ==
    /\ pc[m] = "rm_close_rx"
    /\ Finish(m, Returned(call[m], "none", <<>>))
    /\ UNCHANGED <<conn, chan, chanCur, sessions, queue, unacked, faults, body>>

\* Lines 82-85: acknowledging or decoding failed; close and return None.
_receive_message_close_rx(m) ==
    /\ pc[m] = "rm_close_rx"
    /\ \E o \in CloseOutcomes :
         /\ Allowed(o)
         /\ _close(m, o)
         /\ IF o = "raise"
            THEN Finish(m, Raised(Closed(call[m], o), "CloseError"))
            ELSE Finish(m, Returned(Closed(call[m], o), "none", <<>>))
    /\ UNCHANGED <<body>>

_receive_message(m) ==
    \/ _receive_message_enter(m)
    \/ _receive_message_fetch(m)
    \/ _receive_message_close_cc(m)
    \/ _receive_message_reopen(m)
    \/ _receive_message_close_ex(m)
    \/ _receive_message_ack(m)
    \/ _receive_message_decode(m)
    \/ _receive_message_close_rx(m)

----------------------------------------------------------------------------
\* add_to_queue: no check of the connection before the publish.

add_to_queue(m, item) ==
    /\ pc[m] = "idle"
    /\ Len(log) < MaxCalls
    /\ Goto(m, "add_pub", [NewCall(m, "add", item) EXCEPT !.list = <<item>>])
    /\ UNCHANGED <<conn, chan, chanCur, sessions, queue, unacked, body, faults>>

\* add_list_to_queue: add_to_queue for every item of the list, in list order.
add_list_to_queue(m, items) ==
    /\ pc[m] = "idle"
    /\ Len(log) < MaxCalls
    /\ items # <<>>
    /\ Goto(m, "add_pub", [NewCall(m, "add_list", Head(items))
                              EXCEPT !.list = items, !.todo = Tail(items)])
    /\ UNCHANGED <<conn, chan, chanCur, sessions, queue, unacked, body, faults>>

\* Lines 88-89 and 96-98: basic_publish; any failure but a transport loss is
\* raised again.  When the call belongs to add_list_to_queue and items are left,
\* the loop goes on with the next item.
add_to_queue_publish(m) ==
    /\ pc[m] = "add_pub"
    /\ IF ~Usable(m)
       THEN \* no _channel attribute, or a closed channel: the call raises
            /\ Finish(m, Raised(Invoked(m, call[m], "ok"), ChannelError(m)))
            /\ UNCHANGED <<conn, chan, chanCur, sessions, queue, unacked, faults>>
       ELSE \E o \in PublishOutcomes :
              /\ Allowed(o)
              /\ faults' = faults + Cost(o)
              /\ LET c == Invoked(m, call[m], o)
                     stored == Append(queue, Encode(call[m].arg))
                 IN  CASE o = "ok" ->
                            /\ IF c.todo = <<>>
                               THEN Finish(m, Returned(c, "none", <<>>))
                               ELSE Goto(m, "add_pub", [c EXCEPT !.arg = Head(c.todo),
                                                                 !.todo = Tail(c.todo)])
                            /\ queue' = stored
                            /\ UNCHANGED <<conn, chan, chanCur, sessions, unacked>>
                       [] o = "lost_before" ->
                            /\ Goto(m, "add_reopen", c)
                            /\ DropSession(m, Requeued(m, queue))
                       [] o = "lost_after" ->
                            /\ Goto(m, "add_reopen", c)
                            /\ DropSession(m, Requeued(m, stored))
                       [] o = "unroutable" ->
                            /\ Finish(m, Raised([c EXCEPT !.neg = TRUE], "Unroutable"))
                            /\ UNCHANGED <<conn, chan, chanCur, sessions, queue, unacked>>
                       [] o = "nack" ->
                            /\ Finish(m, Raised([c EXCEPT !.neg = TRUE], "Nack"))
                            /\ UNCHANGED <<conn, chan, chanCur, sessions, queue, unacked>>
                       [] o = "other" ->
                            /\ Finish(m, Raised(c, "Other"))
                            /\ UNCHANGED <<conn, chan, chanCur, sessions, queue, unacked>>
    /\ UNCHANGED <<body>>

\* Lines 91-94: transport lost; reopen and call add_to_queue again.
add_to_queue_reopen(m) ==
    /\ pc[m] = "add_reopen"
    /\ \E o \in OpenOutcomes :
         /\ Allowed(o)
         /\ _open_connection(m, o)
         /\ LET c == [Opened(call[m], o) EXCEPT !.reopens = @ + 1]
            IN  IF OpenRaises(o)
                THEN Finish(m, Raised(c, "Other"))
                ELSE Goto(m, "add_pub", [c EXCEPT !.depth = @ + 1])
    /\ UNCHANGED <<queue, unacked, body>>

----------------------------------------------------------------------------
\* get_size.

get_size(m) ==
    /\ pc[m] = "idle"
    /\ Len(log) < MaxCalls
    /\ Goto(m, "gs_enter", NewCall(m, "size", <<>>))
    /\ UNCHANGED <<conn, chan, chanCur, sessions, queue, unacked, body, faults>>

\* Lines 101-103: reopen when the connection is absent or closed.
get_size_enter(m) ==
    /\ pc[m] = "gs_enter"
    /\ IF IsOpen(m)
       THEN /\ Goto(m, "gs_declare", call[m])
            /\ UNCHANGED <<conn, chan, chanCur, sessions, faults>>
       ELSE \E o \in OpenOutcomes :
              /\ Allowed(o)
              /\ _open_connection(m, o)
              /\ IF OpenRaises(o)
                 THEN Finish(m, Raised(Opened(call[m], o), "Other"))
                 ELSE Goto(m, "gs_declare", Opened(call[m], o))
    /\ UNCHANGED <<queue, unacked, body>>

\* get_size counting with queue_purge instead of a passive declare: the count
\* is right, the queue is emptied.
get_size_declare_purge(m) ==
    /\ pc[m] = "gs_declare"
    /\ Usable(m)
    /\ Finish(m, Returned(Declared(Invoked(m, call[m], "ok"), PassiveDeclare(m)),
                           "value", <<Len(queue)>>))
    /\ queue' = <<>>
    /\ UNCHANGED <<conn, chan, chanCur, sessions, unacked, faults, body>>

\* Lines 105-110: passive queue_declare; message_count is the number of ready
\* messages.  Every failure is raised again.
get_size_declare(m) ==
    /\ pc[m] = "gs_declare"
    /\ IF ~Usable(m)
       THEN /\ Finish(m, Raised(Invoked(m, call[m], "ok"), ChannelError(m)))
            /\ UNCHANGED <<conn, chan, chanCur, sessions, queue, unacked, faults>>
       ELSE \E o \in DeclareOutcomes :
              /\ Allowed(o)
              /\ faults' = faults + Cost(o)
              /\ LET c == Declared(Invoked(m, call[m], o), PassiveDeclare(m))
                 IN  CASE o = "ok" ->
                            /\ Finish(m, Returned(c, "value", <<Len(queue)>>))
                            /\ UNCHANGED <<conn, chan, chanCur, sessions, queue, unacked>>
                       [] o = "lost" ->
                            /\ Finish(m, Raised(c, "StreamLost"))
                            /\ DropSession(m, Requeued(m, queue))
                       [] o = "other" ->
                            /\ Finish(m, Raised(c, "Other"))
                            /\ UNCHANGED <<conn, chan, chanCur, sessions, queue, unacked>>
    /\ UNCHANGED <<body>>

----------------------------------------------------------------------------
\* _close called by the owner of the manager.

close(m) ==
    /\ pc[m] = "idle"
    /\ Len(log) < MaxCalls
    /\ \E o \in CloseOutcomes :
         /\ Allowed(o)
         /\ _close(m, o)
         /\ LET c == Closed(NewCall(m, "close", <<>>), o)
            IN  IF o = "raise"
                THEN Finish(m, Raised(c, "CloseError"))
                ELSE Finish(m, Returned(c, "none", <<>>))
    /\ UNCHANGED <<body>>

Init ==
    /\ pc = [m \in Managers |-> "new"]
    /\ conn = [m \in Managers |-> "none"]
    /\ chan = [m \in Managers |-> "none"]
    /\ chanCur = [m \in Managers |-> FALSE]
    /\ sessions = [m \in Managers |-> 0]
    /\ queue \in InitialQueues
    /\ queue0 = queue
    /\ unacked = [m \in Managers |-> <<>>]
    /\ body = [m \in Managers |-> <<>>]
    /\ call = [m \in Managers |-> NoCall(m)]
    /\ log = <<>>
    /\ faults = 0
    /\ ttl = [m \in Managers |-> 0]
    /\ scope = [m \in Managers |-> "out"]
    /\ consumer = [m \in Managers |-> 0]

Step(m) ==
    \/ __init__(m)
    \/ get_next(m)
    \/ _receive_message(m)
    \/ \E item \in Items : add_to_queue(m, item)
    \/ add_to_queue_publish(m)
    \/ add_to_queue_reopen(m)
    \/ get_size(m)
    \/ get_size_enter(m)
    \/ get_size_declare(m)
    \/ close(m)

Next ==
    \E m \in Drivers : Step(m)

Spec == Init /\ [][Next]_vars

\* The client of main.py: it adds single texts and lists, reads the size, gets
\* and iterates; it never closes.
StepIter(m) ==
    \/ __init__(m)
    \/ \E item \in Items : add_to_queue(m, item)
    \/ \E items \in ItemLists : add_list_to_queue(m, items)
    \/ add_to_queue_publish(m)
    \/ add_to_queue_reopen(m)
    \/ get_size(m)
    \/ get_size_enter(m)
    \/ get_size_declare(m)
    \/ get_next(m)
    \/ __next__(m)
    \/ _receive_message(m)

NextIter ==
    \E m \in Drivers : StepIter(m)

SpecIter == Init /\ [][NextIter]_vars

\* Two managers constructed with the same queue name get from a queue that
\* holds two different messages; their steps interleave.
SharedQueue == <<Encode(<<97>>), Encode(<<233, 8364>>)>>

InitTwo ==
    /\ pc = [m \in Managers |-> "new"]
    /\ conn = [m \in Managers |-> "none"]
    /\ chan = [m \in Managers |-> "none"]
    /\ chanCur = [m \in Managers |-> FALSE]
    /\ sessions = [m \in Managers |-> 0]
    /\ queue = SharedQueue
    /\ queue0 = queue
    /\ unacked = [m \in Managers |-> <<>>]
    /\ body = [m \in Managers |-> <<>>]
    /\ call = [m \in Managers |-> NoCall(m)]
    /\ log = <<>>
    /\ faults = 0
    /\ ttl = [m \in Managers |-> 0]
    /\ scope = [m \in Managers |-> "out"]
    /\ consumer = [m \in Managers |-> 0]

StepTwo(m) ==
    \/ __init__(m)
    \/ get_next(m)
    \/ _receive_message(m)

NextTwo ==
    \E m \in Managers : StepTwo(m)

SpecTwo == InitTwo /\ [][NextTwo]_vars
----------------------------------------------------------------------------
\* RabbitManager (rabbit_manager.py), the second wrapper of the repository:
\* constructed without a session, opened by open() or by the first operation,
\* usable as a with block, with a blocking consume.  Its file is not among the
\* sources; it is modelled from the specification and from its tests.

\* message_ttl_minutes values a manager is constructed with.
TtlMinutes == {0, 1, 10}

\* What the queue holds when the manager is constructed.
ManagerQueues == {<<>>, <<Encode(<<233, 8364>>)>>}

\* consume(timeout): None (wait for ever) or a number of seconds.
Timeouts == {<<>>, <<5>>}

ManagerOpenOutcomes == {"ok", "auth", "err"}
StreamOutcomes == {"ok", "lost"}
PullOutcomes == {"delivery", "timeout", "lost"}

\* The TTL handed over in seconds-to-milliseconds, not minutes-to-milliseconds.
TtlArguments_seconds(t) ==
    IF t > 0 THEN {<<"x-message-ttl", t * 1000>>} ELSE {}

\* The arguments of the queue declaration: the TTL in milliseconds when one is
\* configured, nothing otherwise.
TtlArguments(t) ==
    IF t > 0 THEN {<<"x-message-ttl", t * 60000>>} ELSE {}

\* open(): queue_declare(queue, durable, arguments).
ManagerDeclare(m) ==
    [queue |-> QueueName(m), passive |-> FALSE, durable |-> TRUE,
     arguments |-> TtlArguments(ttl[m])]

\* An operation of the manager ends with trace c.
ManagerFinish(m, c) ==
    /\ pc' = [pc EXCEPT ![m] = "idle"]
    /\ call' = [call EXCEPT ![m] = c]
    /\ log' = Append(log, Entry(c))
    /\ UNCHANGED <<queue0, ttl>>

\* An operation of the manager goes on at position p with trace c.
ManagerGoto(m, p, c) ==
    /\ pc' = [pc EXCEPT ![m] = p]
    /\ call' = [call EXCEPT ![m] = c]
    /\ log' = log
    /\ UNCHANGED <<queue0, ttl>>

\* The constructor: it stores the configuration and touches no broker.
RabbitManager(m) ==
    /\ pc[m] = "new"
    /\ pc' = [pc EXCEPT ![m] = "idle"]
    /\ call' = [call EXCEPT ![m] = Returned(NewCall(m, "init", <<>>), "none", <<>>)]
    /\ UNCHANGED <<conn, chan, chanCur, sessions, queue, queue0, unacked, body, log,
                   faults, ttl, scope, consumer>>

\* open() with outcome o: session and channel are created and the queue is
\* declared; a failure creates nothing.
ManagerOpen(m, o) ==
    /\ conn' = [conn EXCEPT ![m] = IF o = "ok" THEN "open" ELSE @]
    /\ chan' = [chan EXCEPT ![m] = IF o = "ok" THEN "open" ELSE @]
    /\ chanCur' = [chanCur EXCEPT ![m] = IF o = "ok" THEN TRUE ELSE @]
    /\ sessions' = [sessions EXCEPT ![m] = IF o = "ok" THEN @ + 1 ELSE @]
    /\ faults' = faults + Cost(o)

\* The trace after open() with outcome o.
ManagerOpened(c, o) ==
    LET t == [c EXCEPT !.opens = @ + 1, !.faults = @ + Cost(o),
                       !.auth = @ \/ o = "auth",
                       !.openErr = IF o = "ok" THEN @ ELSE o]
    IN  IF o = "ok" THEN Declared(t, ManagerDeclare(c.mgr)) ELSE t

\* What open() raises on outcome o.
ManagerOpenError(o) == IF o = "auth" THEN "Auth" ELSE "ConnectionError"

\* close(): ends the session when there is an open one; never raises.
ManagerClose(m) ==
    IF IsOpen(m)
    THEN /\ DropSession(m, Requeued(m, queue))
         /\ consumer' = [consumer EXCEPT ![m] = 0]
    ELSE UNCHANGED <<conn, chan, chanCur, sessions, unacked, queue, consumer>>

\* open() called by the owner; nothing to do on an open session.
RabbitManager_open(m) ==
    /\ pc[m] = "idle"
    /\ scope[m] # "raised"
    /\ Len(log) < MaxCalls
    /\ IF IsOpen(m)
       THEN /\ ManagerFinish(m, Returned(NewCall(m, "open", <<>>), "none", <<>>))
            /\ UNCHANGED <<conn, chan, chanCur, sessions, faults>>
       ELSE \E o \in ManagerOpenOutcomes :
              /\ Allowed(o)
              /\ ManagerOpen(m, o)
              /\ LET c == ManagerOpened(NewCall(m, "open", <<>>), o)
                 IN  IF o = "ok"
                     THEN ManagerFinish(m, Returned(c, "none", <<>>))
                     ELSE ManagerFinish(m, Raised(c, ManagerOpenError(o)))
    /\ UNCHANGED <<queue, unacked, body, scope, consumer>>

\* close() called by the owner.
RabbitManager_close(m) ==
    /\ pc[m] = "idle"
    /\ scope[m] # "raised"
    /\ Len(log) < MaxCalls
    /\ ManagerClose(m)
    /\ ManagerFinish(m, Returned(NewCall(m, "close", <<>>), "none", <<>>))
    /\ UNCHANGED <<body, faults, scope>>

\* __enter__: open(), then the body of the with block runs with the manager.
RabbitManager_enter(m) ==
    /\ pc[m] = "idle"
    /\ scope[m] = "out"
    /\ Len(log) < MaxCalls
    /\ IF IsOpen(m)
       THEN /\ ManagerFinish(m, Returned(NewCall(m, "enter", <<>>), "none", <<>>))
            /\ scope' = [scope EXCEPT ![m] = "body"]
            /\ UNCHANGED <<conn, chan, chanCur, sessions, faults>>
       ELSE \E o \in ManagerOpenOutcomes :
              /\ Allowed(o)
              /\ ManagerOpen(m, o)
              /\ LET c == ManagerOpened(NewCall(m, "enter", <<>>), o)
                 IN  IF o = "ok"
                     THEN /\ ManagerFinish(m, Returned(c, "none", <<>>))
                          /\ scope' = [scope EXCEPT ![m] = "body"]
                     ELSE /\ ManagerFinish(m, Raised(c, ManagerOpenError(o)))
                          /\ scope' = scope
    /\ UNCHANGED <<queue, unacked, body, consumer>>

\* The body of the with block raises: an operation of the manager raised and
\* the body did not catch it, or the body's own code raised.
RabbitManager_body_raises(m) ==
    /\ pc[m] = "idle"
    /\ scope[m] = "body"
    /\ scope' = [scope EXCEPT ![m] = "raised"]
    /\ UNCHANGED <<pc, conn, chan, chanCur, sessions, queue, queue0, unacked, body, call,
                   log, faults, ttl, consumer>>

\* __exit__ that closes only when the body ended without an exception.
RabbitManager_exit_normal_only(m) ==
    /\ pc[m] = "idle"
    /\ scope[m] \in {"body", "raised"}
    /\ IF scope[m] = "body"
       THEN ManagerClose(m)
       ELSE UNCHANGED <<conn, chan, chanCur, sessions, unacked, queue, consumer>>
    /\ scope' = [scope EXCEPT ![m] = "out"]
    /\ ManagerFinish(m, Returned(NewCall(m, "exit", IF scope[m] = "raised" THEN <<1>> ELSE <<>>),
                                 "none", <<>>))
    /\ UNCHANGED <<body, faults>>

\* __exit__: close(), whether the body ended normally or raised (the trace
\* holds <<1>> for an exception handed to __exit__, <<>> for none); an
\* exception of the body goes on to the caller of the block.
RabbitManager_exit(m) ==
    /\ pc[m] = "idle"
    /\ scope[m] \in {"body", "raised"}
    /\ ManagerClose(m)
    /\ scope' = [scope EXCEPT ![m] = "out"]
    /\ ManagerFinish(m, Returned(NewCall(m, "exit", IF scope[m] = "raised" THEN <<1>> ELSE <<>>),
                                 "none", <<>>))
    /\ UNCHANGED <<body, faults>>

\* consume(timeout).
RabbitManager_consume(m, timeout) ==
    /\ pc[m] = "idle"
    /\ scope[m] # "raised"
    /\ Len(log) < MaxCalls
    /\ ManagerGoto(m, "cs_enter", NewCall(m, "consume", timeout))
    /\ UNCHANGED <<conn, chan, chanCur, sessions, queue, unacked, body, faults, scope,
                   consumer>>

\* consume opens the session when it is absent or closed.
RabbitManager_consume_enter(m) ==
    /\ pc[m] = "cs_enter"
    /\ IF IsOpen(m)
       THEN /\ ManagerGoto(m, "cs_stream", call[m])
            /\ UNCHANGED <<conn, chan, chanCur, sessions, faults>>
       ELSE \E o \in ManagerOpenOutcomes :
              /\ Allowed(o)
              /\ ManagerOpen(m, o)
              /\ IF o = "ok"
                 THEN ManagerGoto(m, "cs_stream", ManagerOpened(call[m], o))
                 ELSE ManagerFinish(m, Raised(ManagerOpened(call[m], o), ManagerOpenError(o)))
    /\ UNCHANGED <<queue, unacked, body, scope, consumer>>

\* consume that answers a transport loss the way get does: reopen, try again.
RabbitManager_consume_stream_retry(m) ==
    /\ pc[m] = "cs_stream"
    /\ \E o \in StreamOutcomes :
         /\ Allowed(o)
         /\ LET c == [call[m] EXCEPT !.tries = @ + 1, !.faults = @ + Cost(o)]
            IN  IF o = "ok"
                THEN /\ ManagerGoto(m, "cs_pull", Noted(c, "stream_opened"))
                     /\ consumer' = [consumer EXCEPT ![m] = @ + 1]
                     /\ faults' = faults + Cost(o)
                     /\ UNCHANGED <<conn, chan, chanCur, sessions, queue, unacked>>
                ELSE /\ ManagerGoto(m, "cs_stream",
                                    [Noted(c, "stream_lost") EXCEPT !.reopens = @ + 1])
                     /\ faults' = faults + Cost(o)
                     /\ queue' = Requeued(m, queue)
                     /\ unacked' = [unacked EXCEPT ![m] = <<>>]
                     /\ UNCHANGED <<conn, chan, chanCur, sessions, consumer>>
    /\ UNCHANGED <<body, scope>>

\* basic_qos and the streaming fetch: the broker registers a consumer.  A
\* transport loss is raised to the caller.
RabbitManager_consume_stream(m) ==
    /\ pc[m] = "cs_stream"
    /\ \E o \in StreamOutcomes :
         /\ Allowed(o)
         /\ faults' = faults + Cost(o)
         /\ LET c == [call[m] EXCEPT !.tries = @ + 1, !.faults = @ + Cost(o)]
            IN  IF o = "ok"
                THEN /\ ManagerGoto(m, "cs_pull", Noted(c, "stream_opened"))
                     /\ consumer' = [consumer EXCEPT ![m] = @ + 1]
                     /\ UNCHANGED <<conn, chan, chanCur, sessions, queue, unacked>>
                ELSE /\ ManagerFinish(m, Raised(Noted(c, "stream_lost"), "StreamLost"))
                     /\ DropSession(m, Requeued(m, queue))
                     /\ consumer' = [consumer EXCEPT ![m] = 0]
    /\ UNCHANGED <<body, scope>>

\* consume that returns None at the inactivity timeout without cancelling.
RabbitManager_consume_pull_leaky(m) ==
    /\ pc[m] = "cs_pull"
    /\ \E o \in PullOutcomes :
         /\ o = "lost" => faults < MaxFaults
         /\ faults' = faults + (IF o = "lost" THEN 1 ELSE 0)
         /\ CASE o = "delivery" ->
                   /\ queue # <<>>
                   /\ ManagerGoto(m, "cs_cancel",
                                  Noted([call[m] EXCEPT !.acked = TRUE], "delivered"))
                   /\ queue' = Tail(queue)
                   /\ body' = [body EXCEPT ![m] = Head(queue)]
                   /\ UNCHANGED <<conn, chan, chanCur, sessions, unacked, consumer>>
              [] o = "timeout" ->
                   /\ queue = <<>>
                   /\ call[m].arg # <<>>
                   /\ ManagerFinish(m, Returned(Noted(call[m], "timeout"), "none", <<>>))
                   /\ UNCHANGED <<conn, chan, chanCur, sessions, queue, unacked, body,
                                  consumer>>
              [] o = "lost" ->
                   /\ ManagerFinish(m, Raised(Noted([call[m] EXCEPT !.faults = @ + 1],
                                                    "stream_lost"), "StreamLost"))
                   /\ DropSession(m, Requeued(m, queue))
                   /\ consumer' = [consumer EXCEPT ![m] = 0]
                   /\ body' = body
    /\ UNCHANGED <<scope>>

\* One item is pulled from the stream: a delivery (acknowledged as it is
\* handed over), the empty marker of the inactivity timeout, or a transport
\* loss, which is raised to the caller.
RabbitManager_consume_pull(m) ==
    /\ pc[m] = "cs_pull"
    /\ \E o \in PullOutcomes :
         /\ o = "lost" => faults < MaxFaults
         /\ faults' = faults + (IF o = "lost" THEN 1 ELSE 0)
         /\ CASE o = "delivery" ->
                   /\ queue # <<>>
                   /\ ManagerGoto(m, "cs_cancel",
                                  Noted([call[m] EXCEPT !.acked = TRUE], "delivered"))
                   /\ queue' = Tail(queue)
                   /\ body' = [body EXCEPT ![m] = Head(queue)]
                   /\ UNCHANGED <<conn, chan, chanCur, sessions, unacked, consumer>>
              [] o = "timeout" ->
                   /\ queue = <<>>
                   /\ call[m].arg # <<>>
                   /\ ManagerGoto(m, "cs_cancel", Noted(call[m], "timeout"))
                   /\ UNCHANGED <<conn, chan, chanCur, sessions, queue, unacked, body,
                                  consumer>>
              [] o = "lost" ->
                   /\ ManagerFinish(m, Raised(Noted([call[m] EXCEPT !.faults = @ + 1],
                                                    "stream_lost"), "StreamLost"))
                   /\ DropSession(m, Requeued(m, queue))
                   /\ consumer' = [consumer EXCEPT ![m] = 0]
                   /\ body' = body
    /\ UNCHANGED <<scope>>

\* The stream is cancelled, then the text of the delivery or None is returned.
RabbitManager_consume_cancel(m) ==
    /\ pc[m] = "cs_cancel"
    /\ consumer' = [consumer EXCEPT ![m] = 0]
    /\ IF "delivered" \in call[m].events
       THEN ManagerFinish(m, Returned(Noted(call[m], "cancelled"), "value", Decode(body[m])))
       ELSE ManagerFinish(m, Returned(Noted(call[m], "cancelled"), "none", <<>>))
    /\ UNCHANGED <<conn, chan, chanCur, sessions, queue, unacked, body, faults, scope>>

InitManager ==
    /\ pc = [m \in Managers |-> "new"]
    /\ conn = [m \in Managers |-> "none"]
    /\ chan = [m \in Managers |-> "none"]
    /\ chanCur = [m \in Managers |-> FALSE]
    /\ sessions = [m \in Managers |-> 0]
    /\ queue \in ManagerQueues
    /\ queue0 = queue
    /\ unacked = [m \in Managers |-> <<>>]
    /\ body = [m \in Managers |-> <<>>]
    /\ call = [m \in Managers |-> NoCall(m)]
    /\ log = <<>>
    /\ faults = 0
    /\ \E t \in TtlMinutes : ttl = [m \in Managers |-> t]
    /\ scope = [m \in Managers |-> "out"]
    /\ consumer = [m \in Managers |-> 0]

StepManager(m) ==
    \/ RabbitManager(m)
    \/ RabbitManager_open(m)
    \/ RabbitManager_close(m)
    \/ RabbitManager_enter(m)
    \/ RabbitManager_body_raises(m)
    \/ RabbitManager_exit(m)
    \/ \E timeout \in Timeouts : RabbitManager_consume(m, timeout)
    \/ RabbitManager_consume_enter(m)
    \/ RabbitManager_consume_stream(m)
    \/ RabbitManager_consume_pull(m)
    \/ RabbitManager_consume_cancel(m)

NextManager ==
    \E m \in Drivers : StepManager(m)

SpecManager == InitManager /\ [][NextManager]_vars
----------------------------------------------------------------------------
\* Properties.

\* Manager m is back at its caller with the outcome of an operation.
Finished(m) == pc[m] = "idle" /\ call[m].kind # "pending"

\* C1: in one call of get, a transport loss during the fetch is answered by at
\* most one reopen-and-retry; a second loss is raised to the caller.
C1_GetReopensAtMostOnce ==
    \A m \in Managers : call[m].op = "get" => call[m].reopens <= 1

\* C2: one call of add issues at most two publish attempts: the first one and
\* one retry after a transport loss.
C2_AddPublishesAtMostTwice ==
    \A m \in Managers : call[m].op = "add" => call[m].tries <= 2

\* C3: whenever add, get or size is about to issue a broker operation on the
\* channel (publish, fetch, acknowledge, passive declare), the session that
\* owns that channel is open.
C3_ChannelUsedOnlyOnOpenSession ==
    \A m \in Managers :
        (pc[m] \in {"add_pub", "rm_fetch", "rm_ack", "gs_declare"} /\ chan[m] # "none")
            => OwnerOpen(m)

\* C4: get hands a text to its caller only after the acknowledgement of that
\* delivery reached the broker in the same call: the decode and the return
\* come after the acknowledgement, and nothing of the call is left unacknowledged.
C4_AckBeforeReturn ==
    \A m \in Managers :
        /\ pc[m] = "rm_decode" => call[m].acked /\ unacked[m] = <<>>
        /\ (call[m].op = "get" /\ call[m].kind = "value")
              => call[m].acked /\ unacked[m] = <<>>

\* A get returned a text.
C4_Witness ==
    \E m \in Managers :
        Finished(m) /\ call[m].op = "get" /\ call[m].kind = "value" /\ call[m].acked

\* C5: an add, get or size that meets no broker failure calls open exactly once
\* and returns normally when it started with the session absent or closed, and
\* does not call open when it started with the session open.
C5_ReopenExactlyWhenClosed ==
    \A m \in Managers :
        (Finished(m) /\ call[m].op \in {"add", "get", "size"} /\ call[m].faults = 0)
            => IF call[m].start = "open"
               THEN call[m].opens = 0
               ELSE call[m].opens = 1 /\ call[m].kind # "raise"

\* C6: an operation in which the broker rejected the credentials during open
\* ends with the authentication error raised to its caller.
C6_AuthenticationErrorRaised ==
    \A m \in Managers :
        (call[m].auth /\ call[m].kind # "pending")
            => call[m].kind = "raise" /\ call[m].err = "Auth"

\* C7: an add whose publish the broker answered negatively (unroutable or nack)
\* raises nothing to the caller and did not reopen the session.
C7_NegativePublishNotRaised ==
    \A m \in Managers :
        (call[m].op = "add" /\ call[m].neg)
            => call[m].kind # "raise" /\ call[m].opens = 0

\* C8: the retry of add and of get is bounded: a call never nests more than one
\* retry inside the first attempt.
C8_RetryDepthAtMostOne ==
    \A m \in Managers : call[m].op \in {"add", "get"} => call[m].depth <= 1

\* C9: on an initially empty queue and a broker that does not fail, add(t)
\* followed by get returns t, and a further get returns None.
C9_RoundTrip ==
    (queue0 = <<>> /\ faults = 0 /\ Len(log) >= 2
        /\ log[1].op = "add" /\ log[1].kind = "none" /\ log[2].op = "get")
      => /\ log[2].kind = "value"
         /\ log[2].val = log[1].arg
         /\ (Len(log) >= 3 /\ log[3].op = "get") => log[3].kind = "none"

\* add of a text with multi-byte characters, then two gets.
C9_Witness ==
    /\ queue0 = <<>> /\ faults = 0 /\ Len(log) = 3
    /\ log[1].op = "add" /\ log[1].kind = "none" /\ log[1].arg = <<233, 8364>>
    /\ log[2].op = "get" /\ log[3].op = "get"

\* C10: on an initially empty queue, a size that follows N adds which all
\* returned normally (after a retry or not) and no get returns N.
C10_SizeCountsAdds ==
    (queue0 = <<>> /\ Len(log) >= 1
        /\ log[Len(log)].op = "size" /\ log[Len(log)].kind = "value"
        /\ \A i \in 1..(Len(log) - 1) : log[i].op = "add" /\ log[i].kind = "none")
      => log[Len(log)].val = <<Len(log) - 1>>
\* C11: a manager owns at most one open session, and it owns one exactly when
\* the connection it holds is open: no operation and no failure leaves an open
\* session behind the one in _connection.
C11_AtMostOneLiveSession ==
    \A m \in Managers :
        /\ sessions[m] <= 1
        /\ sessions[m] = 1 <=> conn[m] = "open"

\* A session was lost during an operation and a new one was opened in its place.
C11_Witness ==
    \E m \in Managers :
        call[m].reopens >= 1 /\ conn[m] = "open" /\ sessions[m] = 1

\* C12: an operation whose open failed at connect or at the queue declaration
\* raised that failure, and the next add, get or size, when it meets no broker
\* failure, opens the session again and returns normally.
C12_RetriableAfterOpenFailure ==
    \A i \in 1..Len(log) :
        log[i].openErr \in {"err_connect", "err_declare"}
          => /\ log[i].kind = "raise"
             /\ (i < Len(log) /\ log[i + 1].op \in {"add", "get", "size"}
                    /\ log[i + 1].faults = 0)
                  => log[i + 1].opens >= 1 /\ log[i + 1].kind # "raise"
\* The step finishes a call of close by manager m.
ClosedBy(m) ==
    /\ Len(log') = Len(log) + 1
    /\ log'[Len(log')].op = "close"
    /\ log'[Len(log')].mgr = m

\* C13: close on a manager whose session is absent or already closed returns
\* normally and changes nothing, neither in the manager nor at the broker; and
\* every close leaves the session not open, so a second close in a row is such
\* a call.
C13_CloseIdempotent ==
    [][\A m \in Managers :
          ClosedBy(m)
            => /\ conn'[m] # "open"
               /\ conn[m] # "open"
                    => /\ UNCHANGED <<conn, chan, chanCur, sessions, queue, unacked, faults>>
                       /\ log'[Len(log')].kind = "none"]_vars

\* close was called twice in a row, and close was called with no session at all.
C13_Witness ==
    /\ \E i \in 1..(Len(log) - 1) : log[i].op = "close" /\ log[i + 1].op = "close"
    /\ \E m \in Managers : conn[m] = "closed" /\ sessions[m] = 0
\* C14: no call of close ends with an exception raised to its caller.
C14_CloseNeverRaises ==
    \A i \in 1..Len(log) : log[i].op = "close" => log[i].kind # "raise"
\* C15: a get whose fetched payload could not be decoded returns None, raises
\* nothing and leaves the session closed.
C15_DecodeFailureIsAbsent ==
    \A m \in Managers :
        (Finished(m) /\ call[m].op = "get" /\ "decode_error" \in call[m].events)
            => call[m].kind = "none" /\ conn[m] # "open"
\* C16: a get whose fetch was answered by the broker closing the channel (the
\* queue was deleted) returns None, raises nothing and leaves the session closed.
C16_ChannelClosedIsAbsent ==
    \A m \in Managers :
        (Finished(m) /\ call[m].op = "get" /\ "chan_closed" \in call[m].events)
            => call[m].kind = "none" /\ conn[m] # "open"
\* C17: a get that lost the transport at the acknowledgement does not return
\* None, and a get that returns None after a loss at the fetch has reopened and
\* fetched again.
C17_TransportLossNotAbsent ==
    \A m \in Managers :
        (Finished(m) /\ call[m].op = "get" /\ call[m].kind = "none")
            => /\ "ack_lost" \notin call[m].events
               /\ "fetch_lost" \in call[m].events => call[m].reopens >= 1
\* C18: an add or a size that found no channel (also after its reopen attempt)
\* ends with a channel-unavailable error raised to the caller.
C18_NoChannelRaisesChannelUnavailable ==
    \A m \in Managers :
        (Finished(m) /\ call[m].op \in {"add", "size"} /\ "no_channel" \in call[m].events)
            => call[m].kind = "raise" /\ call[m].err = "ChannelUnavailable"
\* C19: no step of size changes the queue or the unacknowledged deliveries, and
\* the number size returns is the number of messages on the queue at that time.
C19_SizeReadsOnly ==
    [][\A m \in Managers :
          (pc[m] \in {"gs_enter", "gs_declare"} /\ pc'[m] # pc[m])
            => /\ queue' = queue
               /\ unacked' = unacked
               /\ call'[m].kind = "value" => call'[m].val = <<Len(queue)>>]_vars

\* size returned 2 with two messages on the queue.
C19_Witness ==
    \E m \in Managers :
        /\ Finished(m) /\ call[m].op = "size" /\ call[m].kind = "value"
        /\ call[m].val = <<2>> /\ Len(queue) = 2
\* C20: every step that opens a session successfully sends one declaration of
\* the queue, and all declarations a manager ever sent name the queue given to
\* its constructor and, passive queries apart, are the same declaration.
C20_DeclaredOnEveryOpen ==
    [][\A m \in Managers :
          /\ (sessions'[m] = sessions[m] + 1 /\ chan'[m] = "open" /\ chanCur'[m])
                => call'[m].ndecl = (IF pc[m] = "new" THEN 0 ELSE call[m].ndecl) + 1
          /\ \A d \in call'[m].declared : d.queue = QueueName(m)
          /\ \A d1, d2 \in call'[m].declared :
                (~d1.passive /\ ~d2.passive) => d1 = d2]_vars

\* A session was opened for the second time in the life of the manager, and a
\* passive declaration was sent as well.
C20_Witness ==
    \E m \in Managers :
        /\ call[m].op # "init" /\ call[m].ndecl >= 1 /\ Usable(m)
        /\ \E d \in call[m].declared : d.passive

\* C21: used as a with block the manager has an open session when the body
\* starts, and the step that leaves the block is __exit__, which leaves no
\* session open, both when the body ended normally and when it raised; once
\* the body raised, __exit__ can run and nothing else does before it.
C21_ScopeOpensAndCloses ==
    [][\A m \in Managers :
          /\ (scope[m] = "out" /\ scope'[m] = "body") => conn'[m] = "open"
          /\ (scope[m] # "out" /\ scope'[m] = "out")
                => /\ conn'[m] # "open" /\ sessions'[m] = 0
                   /\ Len(log') = Len(log) + 1 /\ log'[Len(log')].op = "exit"
          /\ scope[m] = "raised"
                => /\ ENABLED RabbitManager_exit(m)
                   /\ <<pc'[m], conn'[m], call'[m]>> # <<pc[m], conn[m], call[m]>>
                         => scope'[m] = "out"]_vars

\* A block was left normally and a later block was left by an exception; both
\* times the session that was open in the body is closed.
C21_Witness ==
    /\ \E i, j \in 1..Len(log) :
          /\ i < j
          /\ log[i].op = "exit" /\ log[i].arg = <<>>
          /\ log[j].op = "exit" /\ log[j].arg = <<1>> /\ log[j - 1].op = "enter"
          /\ log[j - 1].opens = 1
    /\ \A m \in Drivers : conn[m] = "closed" /\ scope[m] = "out"

\* C22: a consume that returned a text or None opened a stream and cancelled
\* it, and whenever control is back at the caller the broker holds no active
\* consumer of the manager.
C22_ConsumeCancelsStream ==
    \A m \in Managers :
        /\ pc[m] = "idle" => consumer[m] = 0
        /\ (Finished(m) /\ call[m].op = "consume" /\ call[m].kind \in {"value", "none"})
              => {"stream_opened", "cancelled"} \subseteq call[m].events

\* One consume returned a text and a later one returned None at its timeout.
C22_Witness ==
    /\ \E i \in 1..Len(log) : log[i].op = "consume" /\ log[i].kind = "value"
    /\ \E m \in Managers :
          /\ Finished(m) /\ call[m].op = "consume" /\ call[m].kind = "none"
          /\ "timeout" \in call[m].events /\ consumer[m] = 0 /\ conn[m] = "open"

\* C23: a consume that met a transport loss, while establishing the stream or
\* while reading it, is over and raised that loss: it established the stream
\* once, and opened the session only before that, when it found it closed.
C23_ConsumeLossPropagates ==
    \A m \in Managers :
        (call[m].op = "consume" /\ "stream_lost" \in call[m].events)
            => /\ Finished(m)
               /\ call[m].kind = "raise" /\ call[m].err = "StreamLost"
               /\ call[m].reopens = 0 /\ call[m].tries = 1
               /\ call[m].opens = (IF call[m].start = "open" THEN 0 ELSE 1)
               /\ conn[m] = "closed"

\* A consume lost the transport while it read the stream, and one lost it
\* while it established the stream.
C23_Witness ==
    /\ \E m \in Managers :
          /\ Finished(m) /\ call[m].op = "consume" /\ call[m].err = "StreamLost"
          /\ "stream_opened" \in call[m].events
    /\ \E i \in 1..(Len(log) - 1) : log[i].op = "consume" /\ log[i].err = "StreamLost"

\* C24: constructing a manager performs no broker interaction: right after
\* the constructor the connection and the channel are absent and no open was
\* attempted.
C24_ConstructorOpensNothing ==
    \A m \in Managers :
        (call[m].op = "init" /\ pc[m] # "new")
            => conn[m] = "none" /\ chan[m] = "none" /\ call[m].opens = 0

\* C25: every declaration of the queue carries, for a TTL of t > 0 minutes,
\* the one argument x-message-ttl with t * 60000 milliseconds (600000 for 10
\* minutes), and no argument at all for t = 0.
C25_TtlInMilliseconds ==
    \A m \in Managers : \A d \in call[m].declared :
        /\ ttl[m] = 0 => d.arguments = {}
        /\ ttl[m] > 0
              => /\ Cardinality(d.arguments) = 1
                 /\ \A a \in d.arguments :
                       /\ a[1] = "x-message-ttl"
                       /\ a[2] % 60000 = 0 /\ a[2] \div 60000 = ttl[m]
        /\ ttl[m] = 10 => d.arguments = {<<"x-message-ttl", 600000>>}

\* A manager configured with 10 minutes declared the queue on two opens.
C25_Witness ==
    \E m \in Managers :
        /\ ttl[m] = 10 /\ call[m].declared # {} /\ conn[m] = "open"
        /\ \E i \in 1..Len(log) : log[i].op = "close"

\* The texts the calls of add_to_queue and add_list_to_queue in l were given,
\* in the order of the calls and of the lists.
RECURSIVE Added(_)
Added(l) ==
    IF l = <<>> THEN <<>>
    ELSE (IF Head(l).op \in {"add", "add_list"} THEN Head(l).list ELSE <<>>) \o Added(Tail(l))

\* The texts the calls of get_next and __next__ in l returned, in call order.
RECURSIVE Got(_)
Got(l) ==
    IF l = <<>> THEN <<>>
    ELSE (IF Head(l).op \in {"get", "next"} /\ Head(l).kind = "value"
          THEN <<Head(l).val>> ELSE <<>>) \o Got(Tail(l))

\* s is t with some elements left out.
RECURSIVE IsSubSeq(_, _)
IsSubSeq(s, t) ==
    IF s = <<>> THEN TRUE
    ELSE IF t = <<>> THEN FALSE
    ELSE IF Head(s) = Head(t) THEN IsSubSeq(Tail(s), Tail(t))
    ELSE IsSubSeq(s, Tail(t))

\* C26: on a broker that does not fail, when a step of an iteration raised
\* StopIteration the queue is empty: a size that follows returns 0 and a get
\* that follows returns None.
C26_IterationDrainsQueue ==
    \A i \in 1..(Len(log) - 1) :
        (faults = 0 /\ log[i].op = "next" /\ log[i].kind = "stop")
            => /\ (log[i + 1].op = "size" /\ log[i + 1].kind = "value")
                    => log[i + 1].val = <<0>>
               /\ log[i + 1].op = "get" => log[i + 1].kind = "none"

\* C27: on an initially empty queue the texts returned by the gets are, in
\* that order, texts that were added, each taken once and in the order of the
\* adds (add_list_to_queue adding in list order), whatever losses and retries
\* happen in between.
C27_FifoOrder ==
    queue0 = <<>> => IsSubSeq(Got(log), Added(log))

C29_AddEnqueuesOnce ==
    \A m \in Managers :
        (queue0 = <<>> /\ Len(log) = 1 /\ Finished(m) /\ call[m].op = "add")
            => Len(queue) + Len(unacked[m]) <= 1

\* C30: when get has returned a text or None, nothing it fetched is
\* unacknowledged on its session, and when its acknowledgement failed the
\* session is no longer open.
C30_NothingUnackedAfterGet ==
    \A m \in Managers :
        (Finished(m) /\ call[m].op = "get" /\ call[m].kind \in {"value", "none"})
            => /\ unacked[m] = <<>>
               /\ (~call[m].acked /\ call[m].events \cap {"ack_error", "ack_lost"} # {})
                     => conn[m] # "open"

\* A get whose acknowledgement was refused returned None after closing the
\* session, and the delivery is back on the queue.
C30_Witness ==
    \E m \in Managers :
        /\ Finished(m) /\ call[m].op = "get" /\ call[m].kind = "none"
        /\ "ack_error" \in call[m].events /\ conn[m] = "closed"
        /\ queue # <<>> /\ unacked[m] = <<>>

\* C31: a get whose fetch failed with an error other than a transport loss or
\* a channel close ends with that error raised and the session closed, the
\* queue as it was; and the add, get or size that follows a get which raised
\* such an error opens the session again and, when it meets no broker failure,
\* returns normally.
C31_FetchErrorClosesAndPropagates ==
    /\ \A m \in Managers :
          (Finished(m) /\ call[m].op = "get" /\ "fetch_error" \in call[m].events)
            => /\ call[m].kind = "raise" /\ call[m].err = "Other"
               /\ conn[m] # "open"
               /\ Len(log) = 1 => queue = queue0
    /\ \A i \in 1..(Len(log) - 1) :
          (log[i].op = "get" /\ log[i].kind = "raise" /\ log[i].err = "Other"
               /\ log[i].openErr = "none"
               /\ log[i + 1].op \in {"add", "get", "size"} /\ log[i + 1].faults = 0)
            => log[i + 1].opens = 1 /\ log[i + 1].kind # "raise"
====
